---------------------------- MODULE Spec2Model ----------------------------
(***************************************************************************)
(* Model of the chat client src/src/components/Home.tsx (one Home          *)
(* component and one socket per client) together with the coordinator it   *)
(* talks to.  The coordinator's code is not part of the sources; it is     *)
(* modelled from spec.md sections 4 and 6.                                  *)
(*                                                                         *)
(* React state: every useState hook has a current value (the variables     *)
(* username, message, loggedIn, onlineUsers, chatHistory, room) and the    *)
(* value captured by the closures of the last render (rendered).  The      *)
(* handlers created by a render (handleUsernameSubmit, handleMessageSubmit,*)
(* the onChange/onClick callbacks, the disabled flags) read rendered;      *)
(* a functional updater reads the current value.  An update made inside a  *)
(* DOM event handler is rendered before the next event; an update made     *)
(* from a socket listener or from the continuation of an await is rendered *)
(* at once by some builds and later by others (batched updates), so Render *)
(* is a step of its own after those.                                       *)
(***************************************************************************)
EXTENDS Naturals, Sequences, FiniteSets

\* ------------------------------------------------------------- bounds
\* Number of inputs over all clients: user inputs (edits of a field, clicks on
\* Room, submits of a form), lost connections and failed presence queries.
MaxInputs == 6

\* Connections (socket.id of each client).
Clients == {1, 2}

\* Room label set (type Room, the initial value and the toggle of line 164).
Rooms == {"blue", "red"}

\* What the user of each client types into the username field, when the field
\* is not cleared, and what is typed into the message field.
Names == <<"alice", "bob">>
Usernames(c) == {"", Names[c]}
Texts == {"hi"}

VARIABLES
    username,       \* useState('')          line 29
    message,        \* useState('')          line 30
    loggedIn,       \* useState(false)       line 31
    onlineUsers,    \* useState<IUser[]>([]) line 32
    chatHistory,    \* useState<IMessage[]>  line 33
    room,           \* useState<Room>('blue') line 145
    rendered,       \* hook values captured by the closures of the last render
    listeners,      \* number of 'newConnection' listeners installed on the socket
    toServer,       \* events emitted by the client, not yet handled by the coordinator
    toClient,       \* events emitted by the coordinator, not yet handled by the client
    queries,        \* presence queries in flight (fetch calls not yet settled)
    now,            \* the clock read by Date.now()
    connState,      \* coordinator: lifecycle state of each connection
    identity,       \* coordinator: the Identity Registry
    directory,      \* coordinator: the Presence Directory
    dirVersion,     \* history: number of Presence Directory changes so far
    hist            \* history: what each client did, for stating the claims

vars == <<username, message, loggedIn, onlineUsers, chatHistory, room, rendered,
          listeners, toServer, toClient, queries, now, connState, identity,
          directory, dirVersion, hist>>

clientVars == <<username, message, loggedIn, onlineUsers, chatHistory, room>>
serverVars == <<connState, identity, directory, dirVersion>>

\* ------------------------------------------------------------- values
NoMessage == [text |-> "", sender |-> "", socketId |-> 0, timestamp |-> 0]

\* An IUser[] value, or the JavaScript value undefined.
Arr(s) == [isArray |-> TRUE, items |-> s]
Undefined == [isArray |-> FALSE, items |-> <<>>]

\* Events on the channel.
ServerEvent(t, m) == [type |-> t, message |-> m]
ClientEvent(t, u, r, m) == [type |-> t, username |-> u, room |-> r, message |-> m]

\* The hook values a render captures.
Snapshot(c) ==
    [username |-> username[c], message |-> message[c], loggedIn |-> loggedIn[c],
     onlineUsers |-> onlineUsers[c], chatHistory |-> chatHistory[c], room |-> room[c]]

SeqToSet(s) == {s[i] : i \in 1..Len(s)}

RECURSIVE WithoutId(_, _)
\* The participants of s whose id is not c, in order.
WithoutId(s, c) ==
    IF s = <<>> THEN <<>>
    ELSE IF Head(s).id = c THEN WithoutId(Tail(s), c)
         ELSE <<Head(s)>> \o WithoutId(Tail(s), c)

\* ------------------------------------------------------------- initial state
NoIdentity == [username |-> "", room |-> ""]

HistInit ==
    [submitted       |-> [c \in Clients |-> <<>>],  \* messages submitted locally
     received        |-> [c \in Clients |-> <<>>],  \* messages of handled 'message' events
     atSubmit        |-> [c \in Clients |-> <<>>],  \* chatHistory after the last local submit
     submitSteps     |-> [c \in Clients |-> <<>>],  \* effects of the last local submit, in order
     sinceSubmit     |-> [c \in Clients |-> <<>>],  \* messages received since then
     emitted         |-> <<>>,                      \* the sendmessage events emitted
     broadcasts      |-> {},                        \* the fan-outs of the coordinator
     inputs          |-> 0,                         \* inputs so far
     identitySubmits |-> [c \in Clients |-> 0],     \* setUsername events emitted
     loggedinHandled |-> [c \in Clients |-> 0],     \* 'loggedin' events handled
     fetchCount      |-> [c \in Clients |-> 0],     \* presence queries issued
     newConnectionHandled |-> [c \in Clients |-> 0], \* 'newConnection' events handled
     lastDone        |-> [c \in Clients |-> 0],     \* id of the last query that settled
     lastOutcome     |-> [c \in Clients |-> ""],    \* and how it settled
     lastBody        |-> [c \in Clients |-> <<>>],  \* body of the last query applied
     appliedVersion  |-> [c \in Clients |-> 0],     \* directory version of that body
     listBefore      |-> [c \in Clients |-> Arr(<<>>)]] \* onlineUsers before the last settle

Init ==
    /\ username = [c \in Clients |-> ""]
    /\ message = [c \in Clients |-> ""]
    /\ loggedIn = [c \in Clients |-> FALSE]
    /\ onlineUsers = [c \in Clients |-> Arr(<<>>)]
    /\ chatHistory = [c \in Clients |-> <<>>]
    /\ room = [c \in Clients |-> "blue"]
    /\ rendered = [c \in Clients |-> Snapshot(c)]
    /\ listeners = [c \in Clients |-> 0]
    /\ toServer = [c \in Clients |-> <<>>]
    /\ toClient = [c \in Clients |-> <<>>]
    /\ queries = [c \in Clients |-> {}]
    /\ now = 0
    /\ connState = [c \in Clients |-> "Unidentified"]
    /\ identity = [c \in Clients |-> NoIdentity]
    /\ directory = <<>>
    /\ dirVersion = 0
    /\ hist = HistInit

\* ------------------------------------------------------------- React
\* The hook values after this step, as the next render captures them.
SnapshotNext(c) ==
    [username |-> username'[c], message |-> message'[c], loggedIn |-> loggedIn'[c],
     onlineUsers |-> onlineUsers'[c], chatHistory |-> chatHistory'[c], room |-> room'[c]]

\* A render of Home: the closures of the handlers capture the current values.
Render(c) ==
    /\ rendered[c] # Snapshot(c)
    /\ rendered' = [rendered EXCEPT ![c] = Snapshot(c)]
    /\ UNCHANGED <<clientVars, listeners, toServer, toClient, queries, now,
                   serverVars, hist>>

\* socket.emit: the event is queued for the coordinator while the channel is up.
Emit(c, ev) ==
    IF connState[c] = "Disconnected" THEN toServer
    ELSE [toServer EXCEPT ![c] = Append(@, ev)]

\* ------------------------------------------------------------- local events
\* Mutant: the username field is never disabled.
UsernameFieldAlwaysEnabled(c) == TRUE

\* disabled={loggedIn} of line 159: the username field is enabled while the
\* last render saw loggedIn false.
UsernameFieldEnabled(c) == ~rendered[c].loggedIn

\* Mutant: the message field is never disabled.
MessageFieldAlwaysEnabled(c) == TRUE

\* disabled={!loggedIn} of line 186: the message field is enabled while the
\* last render saw loggedIn true.
MessageFieldEnabled(c) == rendered[c].loggedIn

\* onChange of the username field (disabled={loggedIn}).
setUsername(c, u) ==
    /\ UsernameFieldEnabled(c)
    /\ username[c] # u
    /\ username' = [username EXCEPT ![c] = u]
    /\ UNCHANGED <<message, loggedIn, onlineUsers, chatHistory, room>>
    /\ rendered' = [rendered EXCEPT ![c] = SnapshotNext(c)]
    /\ hist.inputs < MaxInputs
    /\ hist' = [hist EXCEPT !.inputs = @ + 1]
    /\ UNCHANGED <<listeners, toServer, toClient, queries, now, serverVars>>

\* onChange of the message field (disabled={!loggedIn}).
setMessage(c, t) ==
    /\ MessageFieldEnabled(c)
    /\ message[c] # t
    /\ message' = [message EXCEPT ![c] = t]
    /\ UNCHANGED <<username, loggedIn, onlineUsers, chatHistory, room>>
    /\ rendered' = [rendered EXCEPT ![c] = SnapshotNext(c)]
    /\ hist.inputs < MaxInputs
    /\ hist' = [hist EXCEPT !.inputs = @ + 1]
    /\ UNCHANGED <<listeners, toServer, toClient, queries, now, serverVars>>

\* The room a click on the Room button selects.
ToggleRoom(r) == IF r = "blue" THEN "red" ELSE "blue"

\* onClick of the Room button (never disabled).
setRoom(c) ==
    /\ room' = [room EXCEPT ![c] = ToggleRoom(rendered[c].room)]
    /\ UNCHANGED <<username, message, loggedIn, onlineUsers, chatHistory>>
    /\ rendered' = [rendered EXCEPT ![c] = SnapshotNext(c)]
    /\ hist.inputs < MaxInputs
    /\ hist' = [hist EXCEPT !.inputs = @ + 1]
    /\ UNCHANGED <<listeners, toServer, toClient, queries, now, serverVars>>

\* Submit of the identity form: possible while its only field is enabled.
handleUsernameSubmit(c) ==
    /\ UsernameFieldEnabled(c)
    /\ hist.inputs < MaxInputs
    /\ toServer' = Emit(c, ClientEvent("setUsername", rendered[c].username,
                                       rendered[c].room, NoMessage))
    /\ hist' = [hist EXCEPT !.identitySubmits[c] = @ + 1, !.inputs = @ + 1]
    /\ UNCHANGED <<clientVars, rendered, listeners, toClient, queries, now, serverVars>>

\* The Message built at lines 111-116.
NewMessage(c) ==
    [text |-> rendered[c].message, sender |-> rendered[c].username,
     socketId |-> c, timestamp |-> now]

\* The effects of handleMessageSubmit in the order of its statements:
\* socket.emit (line 118), setChatHistory (line 126), setMessage (line 127).
MessageSubmitSteps == <<"emit", "setChatHistory", "setMessage">>

\* Mutant: the handler emits and does not append.
LocalEchoNone(current, captured, m) == captured

\* Mutant: the local echo appends a copy stamped again after the emit.
LocalEchoRestamped(current, captured, m) ==
    Append(captured, [m EXCEPT !.timestamp = @ + 1])

\* setChatHistory([...chatHistory, newMessage]) of line 126: the new value is
\* built from the chatHistory the handler's closure captured.
LocalEcho(current, captured, m) == Append(captured, m)

\* Submit of the message form: possible while its field is enabled.
handleMessageSubmit(c) ==
    /\ MessageFieldEnabled(c)
    /\ hist.inputs < MaxInputs
    /\ LET m == NewMessage(c) IN
        /\ toServer' = Emit(c, ClientEvent("sendmessage", "", rendered[c].room, m))
        /\ chatHistory' = [chatHistory EXCEPT
                              ![c] = LocalEcho(@, rendered[c].chatHistory, m)]
        /\ message' = [message EXCEPT ![c] = ""]
        /\ now' = now + 1
        /\ hist' = [hist EXCEPT
                      !.inputs = @ + 1,
                      !.submitted[c] = Append(@, m),
                      !.emitted = Append(@, [from |-> c, message |-> m,
                                             room |-> rendered[c].room]),
                      !.atSubmit[c] = chatHistory'[c],
                      !.submitSteps[c] = MessageSubmitSteps,
                      !.sinceSubmit[c] = <<>>]
    /\ UNCHANGED <<username, loggedIn, onlineUsers, room>>
    /\ rendered' = [rendered EXCEPT ![c] = SnapshotNext(c)]
    /\ UNCHANGED <<listeners, toClient, queries, serverVars>>

\* ------------------------------------------------------------- presence query
\* Mutant: no request is issued.
fetchNothing(qs, id) == qs

\* fetchOnlineUsers up to its first await: the request fetch(ADDRESS +
\* '/online-users') is issued.
fetchOnlineUsers(qs, id) ==
    qs \cup {[id |-> id, stage |-> "pending", outcome |-> "", body |-> <<>>,
              version |-> 0]}

RECURSIVE FireListeners(_, _, _)
\* Every installed 'newConnection' listener runs once and calls fetchOnlineUsers.
FireListeners(qs, k, next) ==
    IF k = 0 THEN qs
    ELSE FireListeners(fetchOnlineUsers(qs, next), k - 1, next + 1)

RECURSIVE Missing(_, _)
\* The entries of s that are not in the sequence old, in order.
Missing(s, old) ==
    IF s = <<>> THEN <<>>
    ELSE IF Head(s) \in SeqToSet(old) THEN Missing(Tail(s), old)
         ELSE <<Head(s)>> \o Missing(Tail(s), old)

\* Mutant: the snapshot is merged into the previous list.
ApplySnapshotMerged(old, data) == Arr(old.items \o Missing(data.items, old.items))

\* setOnlineUsers(data.onlineUsers): the hook's new value.
ApplySnapshot(old, data) == data

\* data.onlineUsers of the parsed body: the array of a success body, undefined
\* for a JSON body that has no such field.
ResponseData(q) == IF q.outcome = "ok" THEN Arr(q.body) ELSE Undefined

\* Mutant: the list is populated once and kept afterwards.
AfterFetchOnce(old, q) ==
    IF q.outcome = "throw" \/ old # Arr(<<>>) THEN old ELSE ResponseData(q)

\* Lines 132-142 after the awaits.  A rejected fetch or an unparsable body
\* throws into the catch; any Response object is truthy, so every parsed body
\* reaches setOnlineUsers, whatever the status of the response.
AfterFetch(old, q) ==
    IF q.outcome = "throw" THEN old ELSE ApplySnapshot(old, ResponseData(q))

\* What settling query q writes to the history variables.
Settled(c, q) ==
    [hist EXCEPT
        !.lastDone[c] = q.id,
        !.lastOutcome[c] = q.outcome,
        !.listBefore[c] = onlineUsers[c],
        !.lastBody[c] = IF q.outcome = "ok" THEN q.body ELSE @,
        !.appliedVersion[c] = IF q.outcome = "ok" THEN q.version ELSE @]

\* The continuation of fetchOnlineUsers once its request was answered from the
\* Presence Directory.  No hook is read or written between the two awaits, so
\* they are one step.
CompleteQuery(c, q) ==
    /\ q \in queries[c]
    /\ q.stage = "responded"
    /\ queries' = [queries EXCEPT ![c] = @ \ {q}]
    /\ onlineUsers' = [onlineUsers EXCEPT ![c] = AfterFetch(@, q)]
    /\ hist' = Settled(c, q)
    /\ UNCHANGED <<username, message, loggedIn, chatHistory, room, rendered,
                   listeners, toServer, toClient, now, serverVars>>

\* The ways a presence query fails: the request is rejected or its body is
\* not JSON ("throw"), or a non-success response carries a JSON body that has
\* no onlineUsers field ("nonSuccess").
Failures == {"throw", "nonSuccess"}

\* The continuation of fetchOnlineUsers once its request has failed.  A failure
\* reads nothing of the coordinator, so the failure and the continuation are
\* one step.
FailQuery(c, q, f) ==
    /\ q \in queries[c]
    /\ q.stage = "pending"
    /\ hist.inputs < MaxInputs
    /\ LET failed == [q EXCEPT !.outcome = f] IN
        /\ queries' = [queries EXCEPT ![c] = @ \ {q}]
        /\ onlineUsers' = [onlineUsers EXCEPT ![c] = AfterFetch(@, failed)]
        /\ hist' = [Settled(c, failed) EXCEPT !.inputs = @ + 1]
    /\ UNCHANGED <<username, message, loggedIn, chatHistory, room, rendered,
                   listeners, toServer, toClient, now, serverVars>>

\* ------------------------------------------------------------- socket listeners
\* socket.on('connect') (lines 51-54) only logs and is no step of the model.

\* Mutant: the handler leaves the flag as it is.
setLoggedInNever(c, v) == loggedIn' = loggedIn

\* setLoggedIn(v): the loggedIn hook of client c takes the value v.
setLoggedIn(c, v) == loggedIn' = [loggedIn EXCEPT ![c] = v]

\* socket.on('loggedin'): setLoggedIn(true), fetchOnlineUsers(), and one more
\* 'newConnection' listener installed.
OnLoggedIn(c) ==
    /\ toClient[c] # <<>>
    /\ Head(toClient[c]).type = "loggedin"
    /\ toClient' = [toClient EXCEPT ![c] = Tail(@)]
    /\ setLoggedIn(c, TRUE)
    /\ queries' = [queries EXCEPT ![c] = fetchOnlineUsers(@, hist.fetchCount[c] + 1)]
    /\ listeners' = [listeners EXCEPT ![c] = @ + 1]
    /\ hist' = [hist EXCEPT !.loggedinHandled[c] = @ + 1,
                            !.fetchCount[c] = @ + 1]
    /\ UNCHANGED <<username, message, onlineUsers, chatHistory, room, rendered,
                   toServer, now, serverVars>>

\* Mutant: the 'newConnection' listener is also installed at mount, next to
\* the 'loggedin' listener, and not only inside it.
OnNewConnectionQueriesAtMount(qs, k, next) == FireListeners(qs, k + 1, next)

\* Mutant: no second query while one is outstanding.
OnNewConnectionQueriesSingle(qs, k, next) ==
    IF qs # {} THEN qs ELSE FireListeners(qs, k, next)

\* The queries a 'newConnection' event starts: one per installed listener.
OnNewConnectionQueries(qs, k, next) == FireListeners(qs, k, next)

\* A 'newConnection' event reaches the socket.
OnNewConnection(c) ==
    /\ toClient[c] # <<>>
    /\ Head(toClient[c]).type = "newConnection"
    /\ toClient' = [toClient EXCEPT ![c] = Tail(@)]
    /\ queries' = [queries EXCEPT
                     ![c] = OnNewConnectionQueries(@, listeners[c],
                                                   hist.fetchCount[c] + 1)]
    /\ hist' = [hist EXCEPT !.fetchCount[c] = @ + listeners[c],
                            !.newConnectionHandled[c] = @ + 1]
    /\ UNCHANGED <<clientVars, rendered, listeners, toServer, now, serverVars>>

\* Mutant: the listener puts the received message in front of the history.
AppendReceivedFirst(current, captured, m) == <<m>> \o current

\* Mutant: the listener appends to the chatHistory captured by its closure
\* (the commented-out line 92).
AppendReceivedCaptured(current, captured, m) == Append(captured, m)

\* setChatHistory((chatHistory) => [...chatHistory, newMessage]) of line 95:
\* the updater is applied to the hook's current value.
AppendReceived(current, captured, m) == Append(current, m)

\* socket.on('message').
OnMessage(c) ==
    /\ toClient[c] # <<>>
    /\ Head(toClient[c]).type = "message"
    /\ LET m == Head(toClient[c]).message IN
        /\ chatHistory' = [chatHistory EXCEPT
                              ![c] = AppendReceived(@, rendered[c].chatHistory, m)]
        /\ hist' = [hist EXCEPT !.received[c] = Append(@, m),
                                !.sinceSubmit[c] = Append(@, m)]
    /\ toClient' = [toClient EXCEPT ![c] = Tail(@)]
    /\ UNCHANGED <<username, message, loggedIn, onlineUsers, room, rendered,
                   listeners, toServer, queries, now, serverVars>>

\* ------------------------------------------------------------- coordinator
Identified == {c \in Clients : connState[c] = "Identified"}

\* Mutant: a connection is identified again on every setIdentity.
assignIdentityAgain(c, u, r) ==
    connState[c] # "Disconnected" /\ u # "" /\ r \in Rooms

\* Identity Registry: the first setIdentity of a connection succeeds, with a
\* non-empty username and a configured room.
assignIdentity(c, u, r) ==
    connState[c] = "Unidentified" /\ u # "" /\ r \in Rooms

\* Coordinator, event setIdentity.
ServerSetIdentity(c) ==
    /\ toServer[c] # <<>>
    /\ Head(toServer[c]).type = "setUsername"
    /\ toServer' = [toServer EXCEPT ![c] = Tail(@)]
    /\ LET ev == Head(toServer[c]) IN
        IF assignIdentity(c, ev.username, ev.room)
        THEN /\ identity' = [identity EXCEPT
                               ![c] = [username |-> ev.username, room |-> ev.room]]
             /\ directory' = Append(directory, [id |-> c, username |-> ev.username,
                                                room |-> ev.room])
             /\ dirVersion' = dirVersion + 1
             /\ connState' = [connState EXCEPT ![c] = "Identified"]
             /\ toClient' = [d \in Clients |->
                    IF d = c THEN Append(toClient[d], ServerEvent("loggedin", NoMessage))
                    ELSE IF d \in Identified
                         THEN Append(toClient[d], ServerEvent("newConnection", NoMessage))
                         ELSE toClient[d]]
        ELSE UNCHANGED <<identity, directory, dirVersion, connState, toClient>>
    /\ UNCHANGED <<clientVars, rendered, listeners, queries, now, hist>>

\* Room Broadcaster: the identified connections in room r, the sender excepted.
Recipients(c, r) == {d \in Identified \ {c} : identity[d].room = r}

\* Coordinator, event sendMessage.
ServerSendMessage(c) ==
    /\ toServer[c] # <<>>
    /\ Head(toServer[c]).type = "sendmessage"
    /\ toServer' = [toServer EXCEPT ![c] = Tail(@)]
    /\ LET ev == Head(toServer[c]) IN
        IF connState[c] = "Identified"
        THEN /\ toClient' = [d \in Clients |->
                    IF d \in Recipients(c, ev.room)
                    THEN Append(toClient[d], ServerEvent("message", ev.message))
                    ELSE toClient[d]]
             /\ hist' = [hist EXCEPT !.broadcasts = @ \cup
                    {[from |-> c, message |-> ev.message,
                      to |-> Recipients(c, ev.room),
                      sameRoom |-> Recipients(c, identity[c].room)]}]
        ELSE UNCHANGED <<toClient, hist>>
    /\ UNCHANGED <<clientVars, rendered, listeners, queries, now, serverVars>>

\* Coordinator, channel lost: the participant leaves the Presence Directory and
\* what was queued on the channel is never delivered.
Disconnect(c) ==
    /\ connState[c] # "Disconnected"
    /\ hist.inputs < MaxInputs
    /\ hist' = [hist EXCEPT !.inputs = @ + 1]
    /\ connState' = [connState EXCEPT ![c] = "Disconnected"]
    /\ directory' = WithoutId(directory, c)
    /\ dirVersion' = IF directory' # directory THEN dirVersion + 1 ELSE dirVersion
    /\ toServer' = [toServer EXCEPT ![c] = <<>>]
    /\ toClient' = [toClient EXCEPT ![c] = <<>>]
    /\ UNCHANGED <<clientVars, rendered, listeners, queries, now, identity>>

\* GET /online-users answered from the current Presence Directory.
HttpOnlineUsers(c, q) ==
    /\ q \in queries[c]
    /\ q.stage = "pending"
    /\ queries' = [queries EXCEPT ![c] = (@ \ {q}) \cup
            {[q EXCEPT !.stage = "responded", !.outcome = "ok",
                       !.body = directory, !.version = dirVersion]}]
    /\ UNCHANGED <<clientVars, rendered, listeners, toServer, toClient, now,
                   serverVars, hist>>

\* A coordinator that signals 'newConnection' to every other connection, the
\* unidentified ones included: the signal reaches a client before its
\* 'loggedin'.
EarlyNewConnection(c) ==
    /\ connState[c] = "Unidentified"
    /\ hist.inputs < MaxInputs
    /\ toClient' = [toClient EXCEPT
                       ![c] = Append(@, ServerEvent("newConnection", NoMessage))]
    /\ hist' = [hist EXCEPT !.inputs = @ + 1]
    /\ UNCHANGED <<clientVars, rendered, listeners, toServer, queries, now,
                   serverVars>>

\* ------------------------------------------------------------- specification
\* Identification: the steps every behaviour of a client starts with.
Identification(c) ==
    \/ Render(c)
    \/ \E u \in Usernames(c) : setUsername(c, u)
    \/ setRoom(c)
    \/ handleUsernameSubmit(c)
    \/ ServerSetIdentity(c)
    \/ OnLoggedIn(c)
    \/ OnNewConnection(c)

\* Chat: messages typed, submitted, fanned out and received.
Chat(c) ==
    \/ \E t \in Texts : setMessage(c, t)
    \/ handleMessageSubmit(c)
    \/ ServerSendMessage(c)
    \/ OnMessage(c)

\* Presence: the presence queries and the loss of connections.
Presence(c) ==
    \/ \E q \in queries[c] : HttpOnlineUsers(c, q)
    \/ \E q \in queries[c] : CompleteQuery(c, q)
    \/ \E q \in queries[c], f \in Failures : FailQuery(c, q, f)
    \/ Disconnect(c)

Next == \E c \in Clients : Identification(c) \/ Chat(c) \/ Presence(c)

Spec == Init /\ [][Next]_vars

\* The chat protocol: presence queries are issued and stay unanswered, which
\* no chat step reads.
NextChat == \E c \in Clients : Identification(c) \/ Chat(c)

SpecChat == Init /\ [][NextChat]_vars

\* The presence protocol: no message is submitted, which no presence step reads.
NextPresence == \E c \in Clients : Identification(c) \/ Presence(c)

SpecPresence == Init /\ [][NextPresence]_vars

\* The presence queries of connections that stay: a coordinator that signals
\* 'newConnection' to unidentified connections too, and no connection lost.
NextSignals ==
    \E c \in Clients :
        \/ Identification(c)
        \/ EarlyNewConnection(c)
        \/ \E q \in queries[c] : HttpOnlineUsers(c, q)
        \/ \E q \in queries[c] : CompleteQuery(c, q)
        \/ \E q \in queries[c], f \in Failures : FailQuery(c, q, f)

SpecSignals == Init /\ [][NextSignals]_vars

\* ------------------------------------------------------------- claims
\* Connections c and d are identified in the same room.
SameRoom(c, d) == identity[c].room = identity[d].room

\* C1: no append is lost: the chat history of a client holds every message it
\* submitted locally and every message it received.
C1_NoAppendLost ==
    \A c \in Clients :
        SeqToSet(hist.submitted[c]) \cup SeqToSet(hist.received[c])
            \subseteq SeqToSet(chatHistory[c])

\* C2: the messages received since the last local submit are at the end of the
\* chat history, after the history as it was then, in arrival order.
C2_ReceivedAppended ==
    \A c \in Clients : chatHistory[c] = hist.atSubmit[c] \o hist.sinceSubmit[c]

\* C2 witness: two 'message' events handled back to back with no render between.
C2_Witness ==
    \E c \in Clients :
        /\ Len(hist.sinceSubmit[c]) >= 2
        /\ Len(chatHistory[c]) = Len(rendered[c].chatHistory) + 2

\* C3: a message of A reaches B only if B is identified in A's room, reaches
\* every such B, and never comes back to A.
C3_RoomScopedDelivery ==
    /\ \A c \in Clients : \A i \in 1..Len(hist.received[c]) :
          LET m == hist.received[c][i] IN
              m.socketId # c /\ SameRoom(m.socketId, c)
    /\ \A b \in hist.broadcasts : b.to = b.sameRoom /\ b.from \notin b.to

\* C4: after a presence query completes with a snapshot, the online-user list
\* is that snapshot, whichever query was issued first.
C4_LastCompletedSnapshot ==
    \A c \in Clients :
        hist.lastOutcome[c] = "ok" => onlineUsers[c] = Arr(hist.lastBody[c])

\* C4 witness: two overlapping queries completed out of order, the older one
\* last, and its shorter snapshot replaced the longer list.
C4_Witness ==
    \E c \in Clients :
        /\ hist.fetchCount[c] = 2 /\ queries[c] = {}
        /\ hist.lastDone[c] = 1 /\ hist.lastOutcome[c] = "ok"
        /\ hist.listBefore[c].isArray
        /\ Len(hist.listBefore[c].items) > Len(onlineUsers[c].items)

\* Nothing is in flight: no event on a channel, no presence query outstanding.
Quiet ==
    \A c \in Clients : toServer[c] = <<>> /\ toClient[c] = <<>> /\ queries[c] = {}

Authenticated(c) == loggedIn[c] /\ connState[c] = "Identified"

C6_FailureKeepsList ==
    \A c \in Clients :
        /\ hist.lastOutcome[c] \in Failures => onlineUsers[c] = hist.listBefore[c]
        /\ hist.fetchCount[c] = hist.loggedinHandled[c] + hist.newConnectionHandled[c]

\* The 'loggedin' events a client has handled or is about to handle.
LoggedInEvents(c) ==
    hist.loggedinHandled[c]
        + Cardinality({i \in 1..Len(toClient[c]) : toClient[c][i].type = "loggedin"})

C8_LoggedInFetchesOnce ==
    [][\A c \in Clients :
          hist.loggedinHandled'[c] # hist.loggedinHandled[c]
          => /\ loggedIn'[c]
             /\ queries[c] \subseteq queries'[c]
             /\ Cardinality(queries'[c] \ queries[c]) = 1
             /\ \A q \in queries'[c] \ queries[c] : q.stage = "pending"]_vars

\* C8 witness: 'loggedin' handled, the client authenticated, its query pending.
C8_Witness ==
    \E c \in Clients :
        /\ hist.loggedinHandled[c] = 1 /\ loggedIn[c]
        /\ \E q \in queries[c] : q.stage = "pending"

C10_SenderIsRegisteredName ==
    \A i \in 1..Len(hist.emitted) :
        LET e == hist.emitted[i] IN
            /\ e.message.sender = identity[e.from].username
            /\ e.message.socketId = e.from

\* C11: the room of every sendmessage a client emits is the room of its
\* identity, and the room of an identified client is the room of its identity.
C11_RoomFixedAfterIdentity ==
    /\ \A i \in 1..Len(hist.emitted) :
          connState[hist.emitted[i].from] = "Identified"
              => hist.emitted[i].room = identity[hist.emitted[i].from].room
    /\ \A c \in Clients :
          connState[c] = "Identified" => room[c] = identity[c].room


Last(s) == s[Len(s)]

\* The sendmessage events of client c still on the wire.
InFlightSent(c) ==
    {toServer[c][i].message : i \in {k \in 1..Len(toServer[c]) :
                                        toServer[c][k].type = "sendmessage"}}

\* The message events queued for client d.
InFlightReceived(d) ==
    {toClient[d][i].message : i \in {k \in 1..Len(toClient[d]) :
                                        toClient[d][k].type = "message"}}

\* C12: round trip. The Message a submit appends to the sender's history,
\* the Message its sendmessage carries, and the Message every recipient
\* receives and appends are the same record (text, sender, socketId,
\* timestamp): the one the submit constructed.
C12_RoundTrip ==
    \A c \in Clients :
        /\ hist.submitted[c] # <<>> =>
              /\ hist.atSubmit[c] # <<>>
              /\ Last(hist.atSubmit[c]) = Last(hist.submitted[c])
        /\ InFlightSent(c) \subseteq SeqToSet(hist.submitted[c])
        /\ \A m \in InFlightReceived(c) \cup SeqToSet(hist.received[c]) :
              /\ m.socketId \in Clients \ {c}
              /\ m \in SeqToSet(hist.submitted[m.socketId])
        /\ \A i \in 1..Len(chatHistory[c]) :
              LET m == chatHistory[c][i] IN
                  /\ m.socketId \in Clients
                  /\ m \in SeqToSet(hist.submitted[m.socketId])

\* A recipient's history holds a message that its sender's history holds too.
C12_Witness ==
    \E c \in Clients : \E d \in Clients \ {c} :
        \E i \in 1..Len(chatHistory[d]) :
            /\ chatHistory[d][i].socketId = c
            /\ chatHistory[d][i] \in SeqToSet(chatHistory[c])


\* The entries of list s whose room is r, in the order of s.
InRoom(s, r) == SelectSeq(s, LAMBDA user : user.room = r)

\* The "Connected users" column as last rendered:
\* onlineUsers.filter(user => user.room === room).
Displayed(c) == InRoom(rendered[c].onlineUsers.items, rendered[c].room)

\* C13: the online list an identified client displays is its presence
\* snapshot filtered by the room the client is identified in, so it never
\* shows a participant of another room.
C13_DisplayedIsIdentityRoom ==
    \A c \in Clients :
        (connState[c] = "Identified" /\ rendered[c].onlineUsers.isArray) =>
            /\ Displayed(c) = InRoom(rendered[c].onlineUsers.items, identity[c].room)
            /\ \A i \in 1..Len(Displayed(c)) :
                  Displayed(c)[i].room = identity[c].room


\* Element i of history h comes before element j of h, and both are in
\* sequence s in that order.
InOrderOf(h, i, j, s) ==
    \E p \in 1..Len(s) : \E q \in 1..Len(s) :
        p < q /\ s[p] = h[i] /\ s[q] = h[j]

\* C14: the messages of a sender A in the history of B are in the order A
\* submitted them, and the received messages in the history of B are in the
\* order B received them.
C14_OrderPreserved ==
    \A b \in Clients :
        \A i \in 1..Len(chatHistory[b]) : \A j \in 1..Len(chatHistory[b]) :
            LET mi == chatHistory[b][i]
                mj == chatHistory[b][j]
            IN  /\ (i < j /\ mi.socketId = mj.socketId) =>
                       InOrderOf(chatHistory[b], i, j, hist.submitted[mi.socketId])
                /\ (i < j /\ mi.socketId # b /\ mj.socketId # b) =>
                       InOrderOf(chatHistory[b], i, j, hist.received[b])

\* The history of b holds two messages of another client.
C14_Witness ==
    \E b \in Clients :
        \E i \in 1..Len(chatHistory[b]) : \E j \in 1..Len(chatHistory[b]) :
            /\ i < j
            /\ chatHistory[b][i].socketId # b
            /\ chatHistory[b][j].socketId = chatHistory[b][i].socketId


\* The position of effect x in the sequence of effects s.
StepIndex(s, x) == CHOOSE i \in 1..Len(s) : s[i] = x

\* How many times x occurs in s.
Occurrences(s, x) == Cardinality({i \in 1..Len(s) : s[i] = x})

C16_QueriesOnlyWhenLoggedIn ==
    [][\A c \in Clients :
          /\ (hist'.newConnectionHandled[c] # hist.newConnectionHandled[c]
                 /\ hist.loggedinHandled[c] = 0) =>
                /\ queries'[c] = queries[c]
                /\ hist'.fetchCount[c] = hist.fetchCount[c]
                /\ Snapshot(c)' = Snapshot(c)
                /\ listeners'[c] = listeners[c]
          /\ (queries'[c] \ queries[c] # {}) => loggedIn'[c]
          /\ hist'.fetchCount[c] # hist.fetchCount[c] => loggedIn'[c]
          /\ onlineUsers'[c] # Arr(<<>>) => loggedIn'[c]]_vars

\* A client that handled a 'newConnection' before any 'loggedin' and another
\* whose list is filled.
C16_Witness ==
    \E c \in Clients : \E d \in Clients :
        /\ hist.newConnectionHandled[c] > 0
        /\ hist.loggedinHandled[c] = 0
        /\ onlineUsers[d].isArray
        /\ onlineUsers[d].items # <<>>


\* C17: loggedIn is true exactly when the client has handled a 'loggedin'
\* event; a submit of the identity form does not change it; once true it
\* stays true, also after the connection is lost.
C17_LoggedInIffEventReceived ==
    [][\A c \in Clients :
          /\ loggedIn[c] <=> hist.loggedinHandled[c] >= 1
          /\ loggedIn'[c] <=> hist'.loggedinHandled[c] >= 1
          /\ loggedIn[c] => loggedIn'[c]
          /\ hist'.identitySubmits[c] # hist.identitySubmits[c] =>
                loggedIn'[c] = loggedIn[c]]_vars

\* One client is logged in and has lost its connection; another has
\* submitted its identity and is not logged in.
C17_Witness ==
    \E c \in Clients : \E d \in Clients :
        /\ loggedIn[c]
        /\ connState[c] = "Disconnected"
        /\ hist.identitySubmits[d] > 0
        /\ ~loggedIn[d]


\* C18: a client that has not handled a 'loggedin' event has emitted no
\* sendmessage and has appended no message of its own to its history; the
\* message field is enabled only while loggedIn is true.
C18_NoMessageBeforeLoggedIn ==
    \A c \in Clients :
        /\ MessageFieldEnabled(c) => loggedIn[c]
        /\ hist.loggedinHandled[c] = 0 =>
              /\ hist.submitted[c] = <<>>
              /\ \A i \in 1..Len(hist.emitted) : hist.emitted[i].from # c
              /\ InFlightSent(c) = {}
              /\ \A i \in 1..Len(chatHistory[c]) : chatHistory[c][i].socketId # c

\* One client has submitted a message while the other, with a username
\* typed in, has not handled its 'loggedin' yet.
C18_Witness ==
    \E c \in Clients : \E d \in Clients :
        /\ hist.submitted[c] # <<>>
        /\ hist.loggedinHandled[d] = 0
        /\ username[d] # ""


\* The setUsername events of client c on their way to the coordinator.
IdentityInFlight(c) ==
    Cardinality({i \in 1..Len(toServer[c]) : toServer[c][i].type = "setUsername"})

=============================================================================
